---- MODULE Spec2Model ----
(***************************************************************************)
(* State-machine model of the scan-matching front end of cartographer:     *)
(*   kalman_filter/odometry_state_tracker.h   (OdometryStateTracker)       *)
(*   sensor/laser.cc                          (laser fan operations)       *)
(* Three specifications share the module, one per component:               *)
(*   SpecTracker     the sliding window of odometry states                 *)
(*   SpecToLaserFan  one call of ToLaserFan, one loop iteration per step   *)
(*   SpecFan3D       sequences of the LaserFan3D operations                *)
(***************************************************************************)
EXTENDS Integers, Sequences, FiniteSets

VARIABLES
  \* OdometryStateTracker
  window_size_,        \* size_t window_size_
  odometry_states_,    \* std::deque<OdometryState> odometry_states_
  added,               \* history: every state ever passed to AddOdometryState
  \* ToLaserFan
  proto,               \* proto::LaserScan: angle_min, angle_max, angle_increment, range
  min_range,
  max_range,
  missing_echo_ray_length,
  pc,                  \* "start" | "loop" | "returned" | "aborted"
  range_index,         \* number of beams of proto.range() already iterated
  angle,               \* the local 'float angle'
  laser_fan,           \* the local 'LaserFan laser_fan'
  \* LaserFan3D operations
  fan,                 \* the LaserFan3D the caller currently holds
  compressed,          \* the CompressedLaserFan3D the caller currently holds
  op,                  \* the last operation applied, with its argument
  input,               \* the LaserFan3D passed to the last operation
  compress_input,      \* the LaserFan3D that 'compressed' was built from
  new_to_old,          \* the order recorded when 'compressed' was built
  num_ops              \* operations applied so far

trackerVars == <<window_size_, odometry_states_, added>>
scanVars == <<proto, min_range, max_range, missing_echo_ray_length, pc,
              range_index, angle, laser_fan>>
fanVars == <<fan, compressed, op, input, compress_input, new_to_old, num_ops>>
vars == <<trackerVars, scanVars, fanVars>>

(***************************************************************************)
(* Bounds of the model.                                                    *)
(***************************************************************************)
MaxWindowSize == 3
MaxAdds == 4
MaxBeams == 3
MaxReturns == 3
MaxOps == 3

(***************************************************************************)
(* Generic helpers.                                                        *)
(***************************************************************************)
SeqsUpTo(S, n) == UNION {[1..k -> S] : k \in 0..n}

Last(s) == s[Len(s)]

(***************************************************************************)
(* Rigid transforms and vectors.  Coordinates are integers; a rotation is  *)
(* a number of quarter turns about the z axis, so that rotating keeps      *)
(* points on the integer grid.                                             *)
(***************************************************************************)
RotateXY(q, x, y) ==
  CASE q % 4 = 0 -> <<x, y>>
    [] q % 4 = 1 -> <<-y, x>>
    [] q % 4 = 2 -> <<-x, -y>>
    [] OTHER     -> <<y, -x>>

Rigid3(t, q) == [translation |-> t, rotation |-> q]

Identity3 == Rigid3(<<0, 0, 0>>, 0)

\* transform * point, for a Rigid3 and a 3-vector
Apply3(transform, p) ==
  LET r == RotateXY(transform.rotation, p[1], p[2])
      t == transform.translation
  IN  <<r[1] + t[1], r[2] + t[2], p[3] + t[3]>>

(***************************************************************************)
(* kalman_filter::OdometryState and OdometryStateTracker                   *)
(***************************************************************************)
\* common::Time::min(), the least representable time
TimeMin == -2

OdometryState(time, odometer_pose, state_pose) ==
  [time |-> time, odometer_pose |-> odometer_pose, state_pose |-> state_pose]

\* OdometryState() {} with the default member initializers
DefaultOdometryState_TimeZero == OdometryState(0, Identity3, Identity3)

DefaultOdometryState == OdometryState(TimeMin, Identity3, Identity3)

\* The states a caller may append: any time (in no particular order, the
\* minimum included) and any poses.
Times == {TimeMin, 1}

Poses == {Identity3, Rigid3(<<1, 0, 0>>, 1)}

OdometryStateValues ==
  {OdometryState(t, o, s) : t \in Times, o \in Poses, s \in Poses}

\* push_back, then pop_front while the window is exceeded
PopFrontWhileOver(states, k) ==
  IF Len(states) > k THEN SubSeq(states, Len(states) - k + 1, Len(states))
  ELSE states

AddOdometryState_NoEvict(odometry_state) ==
  /\ Len(added) < MaxAdds
  /\ odometry_states_' = Append(odometry_states_, odometry_state)
  /\ added' = Append(added, odometry_state)
  /\ UNCHANGED <<window_size_, scanVars, fanVars>>

AddOdometryState(odometry_state) ==
  /\ Len(added) < MaxAdds
  /\ odometry_states_' =
       PopFrontWhileOver(Append(odometry_states_, odometry_state), window_size_)
  /\ added' = Append(added, odometry_state)
  /\ UNCHANGED <<window_size_, scanVars, fanVars>>

\* bool empty() const
empty == odometry_states_ = <<>>

\* const OdometryState& newest() const
newest == IF empty THEN DefaultOdometryState ELSE Last(odometry_states_)

TrackerInit ==
  /\ window_size_ \in 1..MaxWindowSize
  /\ odometry_states_ = <<>>
  /\ added = <<>>

TrackerNext ==
  \E odometry_state \in OdometryStateValues : AddOdometryState(odometry_state)

(***************************************************************************)
(* Values of the variables of a component that a specification leaves out. *)
(***************************************************************************)
TrackerIdle == window_size_ = 1 /\ odometry_states_ = <<>> /\ added = <<>>

ScanIdle ==
  /\ proto = <<>> /\ min_range = <<>> /\ max_range = <<>>
  /\ missing_echo_ray_length = 0 /\ pc = "idle" /\ range_index = 0
  /\ angle = 0 /\ laser_fan = <<>>

FanIdle ==
  /\ fan = <<>> /\ compressed = <<>> /\ op = <<>> /\ input = <<>>
  /\ compress_input = <<>> /\ new_to_old = <<>> /\ num_ops = 0

TrackerSpecInit == TrackerInit /\ ScanIdle /\ FanIdle

SpecTracker == TrackerSpecInit /\ [][TrackerNext]_vars

(***************************************************************************)
(* C1: with window_size = k and n calls of AddOdometryState,               *)
(* odometry_states() is exactly the last min(n, k) appended states, oldest *)
(* first, in append order; so its length never exceeds k and is k once     *)
(* n >= k.                                                                 *)
(***************************************************************************)
Min(a, b) == IF a < b THEN a ELSE b

C1_WindowHoldsLastStates ==
  LET n == Len(added)
      k == window_size_
      m == Min(n, k)
  IN  /\ Len(odometry_states_) = m
      /\ Len(odometry_states_) <= k
      /\ n >= k => Len(odometry_states_) = k
      /\ \A i \in 1..m : odometry_states_[i] = added[n - m + i]

\* An eviction has happened, after states appended out of time order.
C1_Witness ==
  /\ Len(added) > window_size_
  /\ Len(odometry_states_) = window_size_
  /\ window_size_ >= 2
  /\ \E i \in 1..(Len(added) - 1) : added[i].time > added[i + 1].time

(***************************************************************************)
(* C2: a fresh tracker is empty and newest() is the default state (time =  *)
(* minimum, identity poses); after any additions empty() is false and      *)
(* newest() is the state added last: empty() iff nothing was ever added.   *)
(***************************************************************************)
C2_EmptyAndNewest ==
  /\ empty <=> (added = <<>>)
  /\ added = <<>> =>
       /\ newest.time = TimeMin
       /\ newest.odometer_pose = Identity3
       /\ newest.state_pose = Identity3
  /\ added # <<>> => newest = Last(added)

C2_Witness ==
  /\ Len(added) > window_size_
  /\ ~empty
  /\ newest = Last(added)
  /\ newest # DefaultOdometryState

(***************************************************************************)
(* IEEE floats as far as ToLaserFan reads them: a number or NaN, with the  *)
(* ordered comparisons false as soon as one side is NaN.                   *)
(***************************************************************************)
F(v) == [nan |-> FALSE, val |-> v]

NaN == [nan |-> TRUE, val |-> 0]

isnan(x) == x.nan

FGe(a, b) == ~a.nan /\ ~b.nan /\ a.val >= b.val

FGt(a, b) == ~a.nan /\ ~b.nan /\ a.val > b.val

FLe(a, b) == ~a.nan /\ ~b.nan /\ a.val <= b.val

FLt(a, b) == ~a.nan /\ ~b.nan /\ a.val < b.val

(***************************************************************************)
(* sensor::ToLaserFan.  Angles are counted in quarter turns, so            *)
(* Eigen::Rotation2Df(angle) * Eigen::Vector2f(r, 0) is exact.             *)
(***************************************************************************)
\* Eigen::Rotation2Df(angle) * Eigen::Vector2f(r, 0.f)
Rotation2Df(a, r) == RotateXY(a, r, 0)

LaserFan(origin, point_cloud, missing_echo_point_cloud) ==
  [origin |-> origin, point_cloud |-> point_cloud,
   missing_echo_point_cloud |-> missing_echo_point_cloud]

\* No LaserFan object exists (before construction, or after an abort).
NoFan == <<>>

\* The beams of a scan: no echo, one echo, or two echoes.
RangeValues == {NaN, F(0), F(1), F(2), F(3)}

Beams ==
  {<<>>} \cup {<<v>> : v \in RangeValues} \cup {<<F(3), F(1)>>, <<NaN, F(1)>>}

MinRangeValues == {F(-1), F(0), F(2), NaN}

MaxRangeValues == {F(1), F(2), NaN}

MissingEchoRayLengths == {5}

AngleMinValues == {F(0), F(1)}

AngleIncrementValues == {F(0), F(1), F(2)}

AngleMaxValues == {F(1), NaN}

\* CHECK_GE(min_range, 0.f); CHECK_GT(angle_increment, 0.f);
\* CHECK_GT(angle_max, angle_min);
ChecksPass_NoMinRangeCheck ==
  /\ FGt(proto.angle_increment, F(0))
  /\ FGt(proto.angle_max, proto.angle_min)

ChecksPass ==
  /\ FGe(min_range, F(0))
  /\ FGt(proto.angle_increment, F(0))
  /\ FGt(proto.angle_max, proto.angle_min)

\* Entry of the function up to 'float angle = proto.angle_min();'
ToLaserFan_Enter ==
  /\ pc = "start"
  /\ IF ChecksPass
     THEN /\ pc' = "loop"
          /\ laser_fan' = LaserFan(<<0, 0>>, <<>>, <<>>)
          /\ angle' = proto.angle_min.val
     ELSE /\ pc' = "aborted"
          /\ UNCHANGED <<laser_fan, angle>>
  /\ UNCHANGED <<proto, min_range, max_range, missing_echo_ray_length, range_index>>
  /\ UNCHANGED <<trackerVars, fanVars>>

\* The body of 'for (const auto& range : proto.range())' for one beam: the
\* fan after the beam 'range' at the current angle.
BeamBody_AnyEcho(range) ==
  IF Len(range) > 0
  THEN LET first_echo == range[Len(range)]
       IN  IF ~isnan(first_echo) /\ FGe(first_echo, min_range)
           THEN IF FLe(first_echo, max_range)
                THEN [laser_fan EXCEPT !.point_cloud =
                        Append(@, Rotation2Df(angle, first_echo.val))]
                ELSE [laser_fan EXCEPT !.missing_echo_point_cloud =
                        Append(@, Rotation2Df(angle, missing_echo_ray_length))]
           ELSE laser_fan
  ELSE laser_fan

BeamBody(range) ==
  IF Len(range) > 0
  THEN LET first_echo == range[1]
       IN  IF ~isnan(first_echo) /\ FGe(first_echo, min_range)
           THEN IF FLe(first_echo, max_range)
                THEN [laser_fan EXCEPT !.point_cloud =
                        Append(@, Rotation2Df(angle, first_echo.val))]
                ELSE [laser_fan EXCEPT !.missing_echo_point_cloud =
                        Append(@, Rotation2Df(angle, missing_echo_ray_length))]
           ELSE laser_fan
  ELSE laser_fan

\* 'angle += proto.angle_increment();' at the end of every iteration
NextAngle_OnlyOnPoint(range) ==
  IF BeamBody(range) # laser_fan THEN angle + proto.angle_increment.val ELSE angle

NextAngle(range) == angle + proto.angle_increment.val

ToLaserFan_Beam ==
  /\ pc = "loop"
  /\ range_index < Len(proto.range)
  /\ LET range == proto.range[range_index + 1]
     IN  /\ laser_fan' = BeamBody(range)
         /\ angle' = NextAngle(range)
  /\ range_index' = range_index + 1
  /\ UNCHANGED <<proto, min_range, max_range, missing_echo_ray_length, pc>>
  /\ UNCHANGED <<trackerVars, fanVars>>

\* 'return laser_fan;' once the range list is exhausted
ToLaserFan_Return ==
  /\ pc = "loop"
  /\ range_index = Len(proto.range)
  /\ pc' = "returned"
  /\ UNCHANGED <<proto, min_range, max_range, missing_echo_ray_length,
                 range_index, angle, laser_fan>>
  /\ UNCHANGED <<trackerVars, fanVars>>

ScanInit ==
  /\ proto \in [angle_min : AngleMinValues, angle_max : AngleMaxValues,
                angle_increment : AngleIncrementValues,
                range : SeqsUpTo(Beams, MaxBeams)]
  /\ min_range \in MinRangeValues
  /\ max_range \in MaxRangeValues
  /\ missing_echo_ray_length \in MissingEchoRayLengths
  /\ pc = "start"
  /\ range_index = 0
  /\ angle = 0
  /\ laser_fan = NoFan

ScanNext == ToLaserFan_Enter \/ ToLaserFan_Beam \/ ToLaserFan_Return

ScanSpecInit == TrackerIdle /\ ScanInit /\ FanIdle

SpecToLaserFan == ScanSpecInit /\ [][ScanNext]_vars

(***************************************************************************)
(* sensor::LaserFan3D and the operations on it.                            *)
(***************************************************************************)
LaserFan3D(origin, returns, misses, reflectivities) ==
  [origin |-> origin, returns |-> returns, misses |-> misses,
   reflectivities |-> reflectivities]

\* sensor::TransformPointCloud: every point transformed, in place
TransformPointCloud(point_cloud, transform) ==
  [i \in 1..Len(point_cloud) |-> Apply3(transform, point_cloud[i])]

\* sensor::ToPointCloud: every 2D point lifted to z = 0, in place
ToPointCloud(point_cloud_2d) ==
  [i \in 1..Len(point_cloud_2d) |->
     <<point_cloud_2d[i][1], point_cloud_2d[i][2], 0>>]

(***************************************************************************)
(* sensor::CompressedPointCloud: points are rounded to a raster of         *)
(* kPrecision, grouped into blocks, and stored block by block; within a    *)
(* block the points keep their order.  new_to_old[i] is the index in the   *)
(* original cloud of the i-th stored point.                                *)
(***************************************************************************)
kPrecision == 2

kBlockSize == 2

\* common::RoundToInt(x / kPrecision): to the nearest, halves away from zero
RasterCoordinate(x) ==
  IF x >= 0 THEN (2 * x + kPrecision) \div (2 * kPrecision)
  ELSE -((kPrecision - 2 * x) \div (2 * kPrecision))

RasterPoint(p) == <<RasterCoordinate(p[1]), RasterCoordinate(p[2]),
                    RasterCoordinate(p[3])>>

BlockCoordinate(r) == <<r[1] \div kBlockSize, r[2] \div kBlockSize,
                        r[3] \div kBlockSize>>

LexLess(a, b) ==
  \/ a[1] < b[1]
  \/ a[1] = b[1] /\ a[2] < b[2]
  \/ a[1] = b[1] /\ a[2] = b[2] /\ a[3] < b[3]

\* The indices of point_cloud, block by block, in order within a block.
RECURSIVE BlockOrder(_, _)
BlockOrder(point_cloud, indices) ==
  IF indices = {} THEN <<>>
  ELSE LET Block(i) == BlockCoordinate(RasterPoint(point_cloud[i]))
           first == CHOOSE i \in indices : \A j \in indices \ {i} :
                      \/ LexLess(Block(i), Block(j))
                      \/ Block(i) = Block(j) /\ i < j
       IN  <<first>> \o BlockOrder(point_cloud, indices \ {first})

\* CompressedPointCloud::CompressAndReturnOrder(point_cloud, &new_to_old):
\* the compressed cloud and the order.
CompressAndReturnOrder(point_cloud) ==
  LET order == BlockOrder(point_cloud, 1..Len(point_cloud))
  IN  [points |-> [i \in 1..Len(point_cloud) |-> RasterPoint(point_cloud[order[i]])],
       new_to_old |-> order]

\* CompressedPointCloud(point_cloud): the order is dropped
CompressedPointCloud(point_cloud) == CompressAndReturnOrder(point_cloud).points

\* CompressedPointCloud::Decompress()
DecompressPointCloud(compressed_points) ==
  [i \in 1..Len(compressed_points) |->
     <<compressed_points[i][1] * kPrecision, compressed_points[i][2] * kPrecision,
       compressed_points[i][3] * kPrecision>>]

\* reordered[i] = reflectivities[new_to_old[i]], for i below
\* reflectivities.size(); indices are counted from 1 here.  An order shorter
\* than the reflectivities is a read out of bounds: no fan that is empty of
\* reflectivities or aligned gets there.
ReorderReflectivities_NoReorder(reflectivities, order) == reflectivities

ReorderReflectivities(reflectivities, order) ==
  [i \in 1..Len(reflectivities) |-> reflectivities[order[i]]]

\* LaserFan3D ToLaserFan3D(const LaserFan&): no reflectivities are given
ToLaserFan3D(fan2d) ==
  LaserFan3D(<<fan2d.origin[1], fan2d.origin[2], 0>>,
             ToPointCloud(fan2d.point_cloud),
             ToPointCloud(fan2d.missing_echo_point_cloud), <<>>)

CompressedLaserFan3D(origin, returns, misses, reflectivities) ==
  [origin |-> origin, returns |-> returns, misses |-> misses,
   reflectivities |-> reflectivities]

Decompress(compressed_laser_fan) ==
  LaserFan3D(compressed_laser_fan.origin,
             DecompressPointCloud(compressed_laser_fan.returns),
             DecompressPointCloud(compressed_laser_fan.misses),
             compressed_laser_fan.reflectivities)

Compress(laser_fan_3d) ==
  LET c == CompressAndReturnOrder(laser_fan_3d.returns)
  IN  CompressedLaserFan3D(
        laser_fan_3d.origin, c.points,
        CompressedPointCloud(laser_fan_3d.misses),
        ReorderReflectivities(laser_fan_3d.reflectivities, c.new_to_old))

TransformLaserFan3D(laser_fan_3d, transform) ==
  LaserFan3D(Apply3(transform, laser_fan_3d.origin),
             TransformPointCloud(laser_fan_3d.returns, transform),
             TransformPointCloud(laser_fan_3d.misses, transform),
             laser_fan_3d.reflectivities)

\* (return_ - laser_fan.origin).norm() <= max_range
NormSquared3(v) == v[1] * v[1] + v[2] * v[2] + v[3] * v[3]

Minus3(a, b) == <<a[1] - b[1], a[2] - b[2], a[3] - b[3]>>

NormLe(v, range) ==
  ~isnan(range) /\ range.val >= 0 /\ NormSquared3(v) <= range.val * range.val

NormLt(v, range) ==
  ~isnan(range) /\ range.val >= 0 /\ NormSquared3(v) < range.val * range.val

\* The loop over laser_fan.returns, pushing back the returns in range.
ReturnsInRange(laser_fan_3d, range) ==
  LET returns == laser_fan_3d.returns
      kept[i \in 0..Len(returns)] ==
        IF i = 0 THEN <<>>
        ELSE IF NormLe(Minus3(returns[i], laser_fan_3d.origin), range)
             THEN Append(kept[i - 1], returns[i])
             ELSE kept[i - 1]
  IN  kept[Len(returns)]

ReturnsInRange_Strict(laser_fan_3d, range) ==
  LET returns == laser_fan_3d.returns
      kept[i \in 0..Len(returns)] ==
        IF i = 0 THEN <<>>
        ELSE IF NormLt(Minus3(returns[i], laser_fan_3d.origin), range)
             THEN Append(kept[i - 1], returns[i])
             ELSE kept[i - 1]
  IN  kept[Len(returns)]

FilterLaserFanByMaxRange_KeepsMisses(laser_fan_3d, range) ==
  LaserFan3D(laser_fan_3d.origin, ReturnsInRange(laser_fan_3d, range),
             laser_fan_3d.misses, <<>>)

FilterLaserFanByMaxRange_KeepsReflectivities(laser_fan_3d, range) ==
  LaserFan3D(laser_fan_3d.origin, ReturnsInRange(laser_fan_3d, range),
             <<>>, laser_fan_3d.reflectivities)

FilterLaserFanByMaxRange_Strict(laser_fan_3d, range) ==
  LaserFan3D(laser_fan_3d.origin, ReturnsInRange_Strict(laser_fan_3d, range),
             <<>>, <<>>)

FilterLaserFanByMaxRange(laser_fan_3d, range) ==
  LaserFan3D(laser_fan_3d.origin, ReturnsInRange(laser_fan_3d, range),
             <<>>, <<>>)

(***************************************************************************)
(* A caller holding one LaserFan3D and at most one CompressedLaserFan3D,   *)
(* applying the operations one after the other.                            *)
(***************************************************************************)
PointValues == {<<1, 0, 0>>, <<3, 0, 0>>, <<1, 2, 2>>}

ReflectivityValues == {7, 9}

Transforms == {Rigid3(<<0, 1, 0>>, 1)}

FilterRanges == {F(0), F(2), NaN}

Fans2D == {LaserFan(<<0, 0>>, <<<<2, 0>>, <<0, 1>>>>, <<<<5, 0>>>>)}

\* No CompressedLaserFan3D is held yet.
NoCompressed == <<>>

\* The fans the caller may start from: reflectivities are absent or aligned
\* with the returns.
InitialFans ==
  {LaserFan3D(<<1, 0, 0>>, r, m, x) :
     r \in SeqsUpTo(PointValues, MaxReturns),
     m \in {<<>>, <<<<0, 0, 6>>>>},
     x \in SeqsUpTo(ReflectivityValues, MaxReturns)}

FanInit ==
  /\ fan \in {f \in InitialFans :
                f.reflectivities = <<>> \/ Len(f.reflectivities) = Len(f.returns)}
  /\ compressed = NoCompressed
  /\ op = [name |-> "none"]
  /\ input = <<>>
  /\ compress_input = <<>>
  /\ new_to_old = <<>>
  /\ num_ops = 0

DoTransformLaserFan3D(transform) ==
  /\ num_ops < MaxOps
  /\ fan' = TransformLaserFan3D(fan, transform)
  /\ op' = [name |-> "TransformLaserFan3D", transform |-> transform]
  /\ input' = fan
  /\ num_ops' = num_ops + 1
  /\ UNCHANGED <<compressed, compress_input, new_to_old, trackerVars, scanVars>>

DoCompress ==
  /\ num_ops < MaxOps
  /\ compressed' = Compress(fan)
  /\ compress_input' = fan
  /\ new_to_old' = CompressAndReturnOrder(fan.returns).new_to_old
  /\ op' = [name |-> "Compress"]
  /\ input' = fan
  /\ num_ops' = num_ops + 1
  /\ UNCHANGED <<fan, trackerVars, scanVars>>

DoDecompress ==
  /\ num_ops < MaxOps
  /\ compressed # NoCompressed
  /\ fan' = Decompress(compressed)
  /\ op' = [name |-> "Decompress"]
  /\ input' = fan
  /\ num_ops' = num_ops + 1
  /\ UNCHANGED <<compressed, compress_input, new_to_old, trackerVars, scanVars>>

DoFilterLaserFanByMaxRange(range) ==
  /\ num_ops < MaxOps
  /\ fan' = FilterLaserFanByMaxRange(fan, range)
  /\ op' = [name |-> "FilterLaserFanByMaxRange", max_range |-> range]
  /\ input' = fan
  /\ num_ops' = num_ops + 1
  /\ UNCHANGED <<compressed, compress_input, new_to_old, trackerVars, scanVars>>

DoToLaserFan3D(fan2d) ==
  /\ num_ops < MaxOps
  /\ fan' = ToLaserFan3D(fan2d)
  /\ op' = [name |-> "ToLaserFan3D", laser_fan |-> fan2d]
  /\ input' = fan
  /\ num_ops' = num_ops + 1
  /\ UNCHANGED <<compressed, compress_input, new_to_old, trackerVars, scanVars>>

FanNext ==
  \/ \E transform \in Transforms : DoTransformLaserFan3D(transform)
  \/ DoCompress
  \/ DoDecompress
  \/ \E range \in FilterRanges : DoFilterLaserFanByMaxRange(range)
  \/ \E fan2d \in Fans2D : DoToLaserFan3D(fan2d)

FanSpecInit == TrackerIdle /\ ScanIdle /\ FanInit

SpecFan3D == FanSpecInit /\ [][FanNext]_vars

(***************************************************************************)
(* C3: ToLaserFan classifies a beam by its first echo only.  No echo, NaN  *)
(* or below min_range: no point.  Above max_range: exactly one point in    *)
(* the missing-echo cloud, at missing_echo_ray_length along the beam, and  *)
(* no return.  min_range <= first echo <= max_range: exactly one return at *)
(* the real range and no miss.  Each beam adds at most one point, so       *)
(* returns + misses never exceed the number of beams.                      *)
(***************************************************************************)
NormSquared2(p) == p[1] * p[1] + p[2] * p[2]

NumPoints(f) == Len(f.point_cloud) + Len(f.missing_echo_point_cloud)

C3_Skipped(range) ==
  \/ Len(range) = 0
  \/ isnan(range[1])
  \/ FLt(range[1], min_range)

C3_BeamStep(range) ==
  LET cloud == laser_fan.point_cloud
      misses == laser_fan.missing_echo_point_cloud
      cloud2 == laser_fan'.point_cloud
      misses2 == laser_fan'.missing_echo_point_cloud
  IN  /\ C3_Skipped(range) => cloud2 = cloud /\ misses2 = misses
      /\ ~C3_Skipped(range) /\ FGt(range[1], max_range) =>
           /\ cloud2 = cloud
           /\ Len(misses2) = Len(misses) + 1
           /\ SubSeq(misses2, 1, Len(misses)) = misses
           /\ Last(misses2) = Rotation2Df(angle, missing_echo_ray_length)
           /\ NormSquared2(Last(misses2)) =
                missing_echo_ray_length * missing_echo_ray_length
      /\ Len(range) > 0 /\ FLe(min_range, range[1]) /\ FLe(range[1], max_range) =>
           /\ misses2 = misses
           /\ Len(cloud2) = Len(cloud) + 1
           /\ SubSeq(cloud2, 1, Len(cloud)) = cloud
           /\ Last(cloud2) = Rotation2Df(angle, range[1].val)
           /\ NormSquared2(Last(cloud2)) = range[1].val * range[1].val
      /\ NumPoints(laser_fan') <= NumPoints(laser_fan) + 1
      /\ NumPoints(laser_fan') <= range_index'

C3_FirstEchoClassifies ==
  [][pc = "loop" /\ range_index' = range_index + 1 =>
       C3_BeamStep(proto.range[range_index + 1])]_vars

\* A scan of three beams has returned: one beam gave a return, one a miss
\* (its first echo above max_range, its second echo within range), one
\* nothing.
C3_Witness ==
  /\ pc = "returned"
  /\ Len(proto.range) = 3
  /\ Len(laser_fan.point_cloud) = 1
  /\ Len(laser_fan.missing_echo_point_cloud) = 1
  /\ \E i \in 1..3 : proto.range[i] = <<F(3), F(1)>>
  /\ max_range = F(2)

(***************************************************************************)
(* C6: ToLaserFan aborts whenever min_range < 0, angle_increment <= 0 or   *)
(* angle_max <= angle_min, before any beam is processed and without any    *)
(* fan; with min_range >= 0, angle_increment > 0 and angle_max > angle_min *)
(* it never aborts, whatever the ranges are.                               *)
(***************************************************************************)
C6_AbortsExactlyOnBadConfiguration ==
  /\ (\/ FLt(min_range, F(0))
      \/ FLe(proto.angle_increment, F(0))
      \/ FLe(proto.angle_max, proto.angle_min)) => pc \in {"start", "aborted"}
  /\ pc = "aborted" => laser_fan = NoFan /\ range_index = 0
  /\ (/\ FGe(min_range, F(0))
      /\ FGt(proto.angle_increment, F(0))
      /\ FGt(proto.angle_max, proto.angle_min)) => pc # "aborted"

\* A call with a negative min_range and beams to process has aborted.
C6_Witness ==
  /\ pc = "aborted"
  /\ FLt(min_range, F(0))
  /\ FGt(proto.angle_increment, F(0))
  /\ FGt(proto.angle_max, proto.angle_min)
  /\ Len(proto.range) = MaxBeams

(***************************************************************************)
(* C8: the beam at index i (from 0) is placed at angle_min +               *)
(* i * angle_increment: the angle advances by one increment per beam,      *)
(* whether the beam gave a return, a miss or nothing, and the points of    *)
(* each output cloud are in increasing beam-index order.                   *)
(***************************************************************************)
RECURSIVE SortedSeq(_)
SortedSeq(S) ==
  IF S = {} THEN <<>>
  ELSE LET m == CHOOSE x \in S : \A y \in S : x <= y
       IN  <<m>> \o SortedSeq(S \ {m})

\* The angle of the beam at index i, counted from 0.
C8_BeamAngle(i) == proto.angle_min.val + i * proto.angle_increment.val

\* cloud is made of beams of increasing index among the first n, each at
\* the angle of its index and at distance Dist(beam).
C8_InBeamOrder(cloud, n, Dist(_)) ==
  \E S \in SUBSET (1..n) :
    /\ Cardinality(S) = Len(cloud)
    /\ LET idx == SortedSeq(S)
       IN  \A j \in 1..Len(cloud) :
             /\ Len(proto.range[idx[j]]) > 0
             /\ ~isnan(proto.range[idx[j]][1])
             /\ cloud[j] = Rotation2Df(C8_BeamAngle(idx[j] - 1),
                                       Dist(proto.range[idx[j]]))

C8_FirstEcho(range) == range[1].val

C8_MissingLength(range) == missing_echo_ray_length

C8_AngleFollowsBeamIndex ==
  pc \in {"loop", "returned"} =>
    /\ angle = C8_BeamAngle(range_index)
    /\ C8_InBeamOrder(laser_fan.point_cloud, range_index, C8_FirstEcho)
    /\ C8_InBeamOrder(laser_fan.missing_echo_point_cloud, range_index,
                      C8_MissingLength)

\* A scan has returned whose first beam has no echo at all, whose second is
\* NaN, and whose third gave a point, with an increment of two.
C8_Witness ==
  /\ pc = "returned"
  /\ Len(proto.range) = 3
  /\ proto.range[1] = <<>>
  /\ proto.range[2] = <<NaN>>
  /\ NumPoints(laser_fan) = 1
  /\ proto.angle_increment = F(2)

(***************************************************************************)
(* C4: every return of FilterLaserFanByMaxRange(fan, max_range) is within  *)
(* max_range (inclusive) of the fan's origin, and the result has no misses *)
(* and no reflectivities, whatever the input fan held.                     *)
(***************************************************************************)
DistanceSquared(a, b) == NormSquared3(Minus3(a, b))

C4_FilterKeepsOnlyReturnsInRange ==
  op.name = "FilterLaserFanByMaxRange" =>
    /\ \A i \in 1..Len(fan.returns) :
         /\ ~isnan(op.max_range)
         /\ op.max_range.val >= 0
         /\ DistanceSquared(input.origin, fan.returns[i]) <=
              op.max_range.val * op.max_range.val
    /\ fan.misses = <<>>
    /\ fan.reflectivities = <<>>

\* A fan with misses and reflectivities was filtered: one return was at
\* exactly max_range and kept, another was farther and dropped.
C4_Witness ==
  /\ op.name = "FilterLaserFanByMaxRange"
  /\ input.misses # <<>>
  /\ input.reflectivities # <<>>
  /\ Len(fan.returns) < Len(input.returns)
  /\ \E i \in 1..Len(fan.returns) :
       DistanceSquared(input.origin, fan.returns[i]) =
         op.max_range.val * op.max_range.val
  /\ op.max_range.val > 0

(***************************************************************************)
(* C5, as amended: for a fan whose reflectivities are aligned with its     *)
(* returns, Decompress(Compress(fan)) has the fan's origin, and its return *)
(* i is the return new_to_old[i] of the fan, quantized, and carries that   *)
(* return's reflectivity; new_to_old is a permutation, so the (return,     *)
(* reflectivity) pairs are the same multiset up to the quantization of the *)
(* returns.                                                                *)
(***************************************************************************)
IsPermutation(order, n) ==
  /\ Len(order) = n
  /\ \A k \in 1..n : \E i \in 1..n : order[i] = k

\* What the compression leaves of a point: its coordinates on the raster.
Quantized(p) == DecompressPointCloud(<<RasterPoint(p)>>)[1]

C5_RoundTripKeepsReflectivityPairs ==
  (/\ op.name = "Decompress"
   /\ Len(compress_input.reflectivities) = Len(compress_input.returns)) =>
    /\ fan.origin = compress_input.origin
    /\ IsPermutation(new_to_old, Len(compress_input.returns))
    /\ Len(fan.returns) = Len(compress_input.returns)
    /\ Len(fan.reflectivities) = Len(compress_input.returns)
    /\ \A i \in 1..Len(fan.returns) :
         /\ fan.reflectivities[i] = compress_input.reflectivities[new_to_old[i]]
         /\ fan.returns[i] = Quantized(compress_input.returns[new_to_old[i]])

(***************************************************************************)
(* C5, as stated: as above, with the multiset of (return, reflectivity)    *)
(* pairs of Decompress(Compress(fan)) equal to that of the fan, the        *)
(* returns compared exactly.                                               *)
(***************************************************************************)
C5_PairCount(f, pair) ==
  Cardinality({i \in 1..Len(f.returns) :
                 <<f.returns[i], f.reflectivities[i]>> = pair})

C5_ExactPairsPreserved ==
  (/\ op.name = "Decompress"
   /\ Len(compress_input.reflectivities) = Len(compress_input.returns)) =>
    /\ fan.origin = compress_input.origin
    /\ Len(fan.returns) = Len(compress_input.returns)
    /\ Len(fan.reflectivities) = Len(compress_input.returns)
    /\ \A i \in 1..Len(fan.returns) :
         fan.reflectivities[i] = compress_input.reflectivities[new_to_old[i]]
    /\ \A i \in 1..Len(compress_input.returns) :
         LET pair == <<compress_input.returns[i], compress_input.reflectivities[i]>>
         IN  C5_PairCount(fan, pair) = C5_PairCount(compress_input, pair)

\* A fan was compressed and decompressed whose returns were reordered and
\* whose reflectivities differ from one return to the other.
C5_Witness ==
  /\ op.name = "Decompress"
  /\ Len(compress_input.returns) = MaxReturns
  /\ Len(compress_input.reflectivities) = Len(compress_input.returns)
  /\ new_to_old # [i \in 1..Len(new_to_old) |-> i]
  /\ fan.reflectivities # compress_input.reflectivities
  /\ fan.returns # compress_input.returns

(***************************************************************************)
(* C9: from a fan whose reflectivities are absent or as many as its        *)
(* returns, every fan produced by a sequence of TransformLaserFan3D,       *)
(* Compress, Decompress, FilterLaserFanByMaxRange and ToLaserFan3D has     *)
(* reflectivities that are absent or as many as its returns;               *)
(* TransformLaserFan3D leaves the reflectivities as they are and keeps the *)
(* length and the order of returns and misses.                             *)
(***************************************************************************)
ReflectivitiesAligned(f) ==
  f.reflectivities = <<>> \/ Len(f.reflectivities) = Len(f.returns)

C9_ReflectivitiesStayAligned ==
  /\ ReflectivitiesAligned(fan)
  /\ compressed # NoCompressed => ReflectivitiesAligned(compressed)
  /\ op.name = "TransformLaserFan3D" =>
       /\ fan.reflectivities = input.reflectivities
       /\ Len(fan.returns) = Len(input.returns)
       /\ Len(fan.misses) = Len(input.misses)
       /\ \A i \in 1..Len(fan.returns) :
            fan.returns[i] = Apply3(op.transform, input.returns[i])
       /\ \A i \in 1..Len(fan.misses) :
            fan.misses[i] = Apply3(op.transform, input.misses[i])

\* A fan with reflectivities went through Compress, Decompress and
\* TransformLaserFan3D and still has them.
C9_Witness ==
  /\ op.name = "TransformLaserFan3D"
  /\ num_ops = 3
  /\ compressed # NoCompressed
  /\ compress_input.reflectivities # <<>>
  /\ input = Decompress(compressed)
  /\ Len(fan.reflectivities) = Len(fan.returns)
  /\ Len(fan.returns) >= 2
  /\ fan.misses # <<>>

(***************************************************************************)
(* C10: FilterLaserFanByMaxRange keeps every return of its input that is   *)
(* within max_range of the origin, in the input's order, leaves the origin *)
(* as it is and does not touch its input; filtering the result again with  *)
(* the same max_range changes nothing.                                     *)
(***************************************************************************)
C10_InRange(origin, p, range) ==
  /\ ~isnan(range)
  /\ range.val >= 0
  /\ DistanceSquared(origin, p) <= range.val * range.val

\* The indices of the returns of f within range, in increasing order.
C10_KeptIndices(f, range) ==
  SortedSeq({i \in 1..Len(f.returns) : C10_InRange(f.origin, f.returns[i], range)})

C10_FilterKeepsAllInRangeInOrder ==
  op.name = "FilterLaserFanByMaxRange" =>
    LET kept == C10_KeptIndices(input, op.max_range)
    IN  /\ Len(fan.returns) = Len(kept)
        /\ \A j \in 1..Len(kept) : fan.returns[j] = input.returns[kept[j]]
        /\ fan.origin = input.origin
        /\ FilterLaserFanByMaxRange(fan, op.max_range) = fan

\* A fan was filtered that had a return at exactly max_range between two
\* others, one of them out of range.
C10_Witness ==
  /\ op.name = "FilterLaserFanByMaxRange"
  /\ Len(input.returns) = 3
  /\ Len(fan.returns) = 2
  /\ fan.returns[1] # fan.returns[2]
  /\ \E i \in 1..2 : DistanceSquared(input.origin, fan.returns[i]) =
                       op.max_range.val * op.max_range.val
  /\ op.max_range.val > 0
====
